---- MODULE Spec2Model ----
(***************************************************************************)
(* Hostel management application (teja-kanike/ML_PROJECT).                 *)
(*                                                                         *)
(* Two parts share this module:                                            *)
(*   - the predictor lifecycle (SentimentAnalyzer, ComplaintClassifier,    *)
(*     OccupancyPredictor): train_model / load_model / predict against the *)
(*     pickle file that is the model store, run by several processes;      *)
(*   - the booking workflow of app.py (book_room), run by concurrent       *)
(*     requests against the rooms and bookings tables.                     *)
(*                                                                         *)
(* Numbers that are fractions in the source (confidence, polarity) are     *)
(* kept in hundredths: 0.7 is 70. Occupancy rates are percentages kept in  *)
(* thousandths: 75.0 is 75000.                                             *)
(***************************************************************************)
EXTENDS Integers, Sequences, FiniteSets, TLC

VARIABLES
    kind,        \* which predictor class the processes hold
    textblob,    \* TEXTBLOB_AVAILABLE
    is_trained,  \* is_trained[p]: the instance's flag in process p
    model,       \* model[p]: the instance's in-memory model in process p
    store,       \* content of the predictor's .pkl file
    ppc,         \* ppc[p]: where process p is inside train_model
    call,        \* the call that ran last, with what it saw and returned
    rooms,       \* rooms[i]: committed is_available of room i
    bookings,    \* bookings[b]: the committed row of booking b, if any
    req,         \* req[r]: the state of book_room request r
    complaints,  \* complaints[c]: the committed row of complaint c, if any
    creq,        \* creq[r]: the state of student_complaints request r
    resp,        \* the response of the admin request that ran last
    boot         \* where a starting process is inside create_app's startup block

vars == <<kind, textblob, is_trained, model, store, ppc, call, rooms, bookings, req,
          complaints, creq, resp, boot>>
predVars == <<kind, textblob, is_trained, model, store, ppc, call>>
bookVars == <<rooms, bookings, req>>
appVars == <<complaints, creq, resp, boot>>

----------------------------------------------------------------------------
(* Bounds of the model *)

NumProcs == 2
NumRooms == 1
NumReqs == 2

Procs == 1..NumProcs
RoomIds == 1..NumRooms
Reqs == 1..NumReqs

----------------------------------------------------------------------------
(* Text: a string is a sequence of one-character strings *)

UpperCase ==
    <<"A", "B", "C", "D", "E", "F", "G", "H", "I", "J", "K", "L", "M",
      "N", "O", "P", "Q", "R", "S", "T", "U", "V", "W", "X", "Y", "Z">>

LowerCase ==
    <<"a", "b", "c", "d", "e", "f", "g", "h", "i", "j", "k", "l", "m",
      "n", "o", "p", "q", "r", "s", "t", "u", "v", "w", "x", "y", "z">>

LowerChar(c) ==
    IF \E i \in 1..Len(UpperCase) : UpperCase[i] = c
    THEN LowerCase[CHOOSE i \in 1..Len(UpperCase) : UpperCase[i] = c]
    ELSE c

\* str.lower()
Lower(s) == [i \in 1..Len(s) |-> LowerChar(s[i])]

\* `word in text` for strings: substring test
Contains(text, word) ==
    \E i \in 0..(Len(text) - Len(word)) :
        \A j \in 1..Len(word) : text[i + j] = word[j]

\* any(word in text for word in words)
AnyIn(text, words) == \E k \in 1..Len(words) : Contains(text, words[k])

\* f"{title} {description}"
Combined(title, description) == title \o <<" ">> \o description

----------------------------------------------------------------------------
(* ComplaintClassifier: keyword lists *)

ElectricalWords ==
    << <<"l", "i", "g", "h", "t">>,
       <<"p", "o", "w", "e", "r">>,
       <<"e", "l", "e", "c", "t", "r", "i", "c">>,
       <<"s", "o", "c", "k", "e", "t">>,
       <<"f", "a", "n">>,
       <<"a", "c">> >>

PlumbingWords ==
    << <<"w", "a", "t", "e", "r">>,
       <<"t", "a", "p">>,
       <<"t", "o", "i", "l", "e", "t">>,
       <<"d", "r", "a", "i", "n">>,
       <<"p", "i", "p", "e">>,
       <<"b", "a", "t", "h", "r", "o", "o", "m">> >>

CleaningWords ==
    << <<"c", "l", "e", "a", "n">>,
       <<"d", "i", "r", "t", "y">>,
       <<"d", "u", "s", "t">>,
       <<"g", "a", "r", "b", "a", "g", "e">> >>

FurnitureWords ==
    << <<"b", "e", "d">>,
       <<"c", "h", "a", "i", "r">>,
       <<"t", "a", "b", "l", "e">>,
       <<"f", "u", "r", "n", "i", "t", "u", "r", "e">>,
       <<"c", "u", "p", "b", "o", "a", "r", "d">> >>

FallbackHighWords ==
    << <<"e", "m", "e", "r", "g", "e", "n", "c", "y">>,
       <<"u", "r", "g", "e", "n", "t">>,
       <<"d", "a", "n", "g", "e", "r">>,
       <<"f", "i", "r", "e">> >>

FallbackMediumWords ==
    << <<"b", "r", "o", "k", "e", "n">>,
       <<"l", "e", "a", "k">>,
       <<"n", "o", "t", " ", "w", "o", "r", "k", "i", "n", "g">> >>

ModelHighWords ==
    << <<"e", "m", "e", "r", "g", "e", "n", "c", "y">>,
       <<"u", "r", "g", "e", "n", "t">>,
       <<"d", "a", "n", "g", "e", "r">>,
       <<"f", "i", "r", "e">>,
       <<"f", "l", "o", "o", "d">>,
       <<"e", "l", "e", "c", "t", "r", "o", "c", "u", "t", "i", "o", "n">>,
       <<"g", "a", "s">> >>

ModelMediumWords ==
    << <<"l", "e", "a", "k">>,
       <<"b", "r", "o", "k", "e", "n">>,
       <<"n", "o", "t", " ", "w", "o", "r", "k", "i", "n", "g">>,
       <<"i", "s", "s", "u", "e">>,
       <<"p", "r", "o", "b", "l", "e", "m">> >>



Complaint1 == [title |-> <<"W", "i", "F", "i", " ", "n", "o", "t", " ", "w", "o", "r", "k", "i", "n", "g">>, description |-> <<>>]
Complaint2 == [title |-> <<"W", "a", "t", "e", "r", " ", "l", "e", "a", "k">>, description |-> <<"B", "a", "t", "h", "r", "o", "o", "m", " ", "i", "s", " ", "d", "i", "r", "t", "y">>]
Complaint3 == [title |-> <<>>, description |-> <<" ">>]
Complaint4 == [title |-> <<"U", "R", "G", "E", "N", "T">>, description |-> <<"f", "a", "n", " ", "b", "r", "o", "k", "e", "n">>]
Complaint5 == [title |-> <<"F", "l", "o", "o", "d">>, description |-> <<"p", "o", "w", "e", "r", " ", "i", "s", "s", "u", "e">>]

ComplaintInputs == {Complaint1, Complaint2, Complaint3, Complaint4, Complaint5}

----------------------------------------------------------------------------
(* Values shared by the three predictors *)

Kinds == {"sentiment", "complaint", "occupancy"}

\* The labels of generate_training_data: the classes a fitted pipeline can
\* answer with.
TrainingLabels(k) ==
    IF k = "sentiment" THEN {"positive", "negative", "neutral"}
    ELSE IF k = "complaint" THEN {"electrical", "plumbing", "cleaning", "furniture"}
    ELSE {}

\* The categories and labels the result types enumerate.
ComplaintCategories == {"electrical", "plumbing", "cleaning", "furniture", "other"}
SentimentLabels == {"positive", "negative", "neutral"}
Priorities == {"low", "medium", "high"}

NoValue == [none |-> TRUE]
ExceptionValue == [exception |-> TRUE]

\* np.max(predict_proba): what a fitted classifier may report, in hundredths
ModelConfidences == {40, 100}

\* TextBlob polarity of the sample feedback texts, in hundredths
Polarities == {-11, -10, 0, 10, 11}
\* The empty text: TextBlob gives it polarity 0.0
EmptyFeedback == [polarity |-> 0, blank |-> TRUE]

\* The sample feedback texts, by their polarity; blank: the text is empty or
\* white space only
SentimentInputs == [polarity : Polarities \ {0}, blank : {FALSE}] \cup {EmptyFeedback}

\* Calendar features of the sample dates
OccupancyInputs == {[month |-> 1, weekday |-> 0], [month |-> 6, weekday |-> 6]}

\* What the regressor may answer before the clamp, in thousandths of a
\* percent
RawPredictions == {-3000, 42126, 104000}

Inputs(k) ==
    IF k = "sentiment" THEN SentimentInputs
    ELSE IF k = "complaint" THEN ComplaintInputs
    ELSE OccupancyInputs

\* What the fitted model answers for one input: the pipeline is opaque, so
\* every answer it can give is drawn.
ModelOutputs(k) ==
    IF k = "occupancy" THEN [raw : RawPredictions]
    ELSE [label : TrainingLabels(k), confidence : ModelConfidences]

FallbackConfidence == 70
TextblobConfidence == 80
FinalFallbackConfidence == 50
DefaultOccupancy == 75000

\* The upper end of the range predict_occupancy clamps to: 100
FullOccupancy == 100000
PolarityThreshold == 10

----------------------------------------------------------------------------
(* load_model, the same in the three classes *)

\* Mutant of LoadOnError: the handler drops the in-memory model
LoadOnErrorClearing(tr, mdl, observed) ==
    [ret |-> FALSE, is_trained |-> tr, model |-> "none", observed |-> observed,
     raised |-> FALSE]

\* The except clause of load_model: the error is printed, False is returned
\* and the instance is as it was.
LoadOnError(tr, mdl, observed) ==
    [ret |-> FALSE, is_trained |-> tr, model |-> mdl, observed |-> observed,
     raised |-> FALSE]

\* Mutant of LoadModel: a successful load sets the flag and leaves the
\* in-memory model as it was
LoadModelFlagOnly(tr, mdl, st, ioFail) ==
    IF st = "absent"
    THEN [ret |-> FALSE, is_trained |-> tr, model |-> mdl, observed |-> "absent",
          raised |-> FALSE]
    ELSE IF st = "partial" THEN LoadOnError(tr, mdl, "partial")
    ELSE IF ioFail THEN LoadOnError(tr, mdl, "ioerror")
    ELSE [ret |-> TRUE, is_trained |-> TRUE, model |-> mdl, observed |-> st,
          raised |-> FALSE]

\* Mutant of LoadModel: a load that finds no usable file marks the instance
\* untrained
LoadModelResetting(tr, mdl, st, ioFail) ==
    IF st = "fitted" /\ ~ioFail
    THEN [ret |-> TRUE, is_trained |-> TRUE, model |-> st, observed |-> st,
          raised |-> FALSE]
    ELSE [ret |-> FALSE, is_trained |-> FALSE, model |-> mdl,
          observed |-> IF st = "fitted" THEN "ioerror" ELSE st, raised |-> FALSE]

\* What load_model does to an instance (tr, mdl) given the file content st;
\* ioFail: joblib.load raises on a complete file. observed: what the read
\* of the file came to.
LoadModel(tr, mdl, st, ioFail) ==
    IF st = "absent"
    THEN [ret |-> FALSE, is_trained |-> tr, model |-> mdl, observed |-> "absent",
          raised |-> FALSE]
    ELSE IF st = "partial" THEN LoadOnError(tr, mdl, "partial")
    ELSE IF ioFail THEN LoadOnError(tr, mdl, "ioerror")
    ELSE [ret |-> TRUE, is_trained |-> TRUE, model |-> st, observed |-> st,
          raised |-> FALSE]

\* self.model.predict(...) raises unless the in-memory model is fitted
InferenceRaises(mdl) == mdl # "fitted"

----------------------------------------------------------------------------
(* ComplaintClassifier *)

\* Mutant of FallbackCategory: the cleaning group is looked at before the
\* plumbing group
FallbackCategoryCleaningFirst(text) ==
    IF AnyIn(text, ElectricalWords) THEN "electrical"
    ELSE IF AnyIn(text, CleaningWords) THEN "cleaning"
    ELSE IF AnyIn(text, PlumbingWords) THEN "plumbing"
    ELSE IF AnyIn(text, FurnitureWords) THEN "furniture"
    ELSE "other"

FallbackCategory(text) ==
    IF AnyIn(text, ElectricalWords) THEN "electrical"
    ELSE IF AnyIn(text, PlumbingWords) THEN "plumbing"
    ELSE IF AnyIn(text, CleaningWords) THEN "cleaning"
    ELSE IF AnyIn(text, FurnitureWords) THEN "furniture"
    ELSE "other"

FallbackPriority(text) ==
    IF AnyIn(text, FallbackHighWords) THEN "high"
    ELSE IF AnyIn(text, FallbackMediumWords) THEN "medium"
    ELSE "low"

_fallback_classification(title, description) ==
    LET text == Lower(Combined(title, description))
    IN  [category |-> FallbackCategory(text),
         priority |-> FallbackPriority(text),
         confidence |-> FallbackConfidence]

\* _fallback_classification of each sample complaint, computed once
FallbackOf == [x \in ComplaintInputs |-> _fallback_classification(x.title, x.description)]

\* Mutant of ModelPriority: the medium tier is looked at before the high one
ModelPriorityMediumFirst(text_lower) ==
    IF AnyIn(text_lower, ModelMediumWords) THEN "medium"
    ELSE IF AnyIn(text_lower, ModelHighWords) THEN "high"
    ELSE "low"

ModelPriority(text_lower) ==
    IF AnyIn(text_lower, ModelHighWords) THEN "high"
    ELSE IF AnyIn(text_lower, ModelMediumWords) THEN "medium"
    ELSE "low"

\* The model path's priority of each sample complaint, computed once
ModelPriorityOf ==
    [x \in ComplaintInputs |-> ModelPriority(Lower(Combined(x.title, x.description)))]

\* Mutant of ClassifyOnError: the exception is raised again
ClassifyOnErrorReraise(x) ==
    [raised |-> TRUE, path |-> "none", value |-> ExceptionValue]

\* The except clause of classify_complaint
ClassifyOnError(x) ==
    [raised |-> FALSE, path |-> "fallback", value |-> FallbackOf[x]]

\* The body of classify_complaint after the load: mdl is the model in memory,
\* loaded tells whether the instance is trained by now.
ClassifyBody(loaded, mdl, x, out) ==
    IF ~loaded
    THEN [raised |-> FALSE, path |-> "fallback", value |-> FallbackOf[x]]
    ELSE IF InferenceRaises(mdl)
    THEN ClassifyOnError(x)
    ELSE [raised |-> FALSE, path |-> "model",
          value |-> [category |-> out.label,
                     priority |-> ModelPriorityOf[x],
                     confidence |-> out.confidence]]

----------------------------------------------------------------------------
(* SentimentAnalyzer *)

\* A text TextBlob raises on: None, which is no string
NoneText == [polarity |-> 0, blank |-> FALSE, text |-> "None"]

\* TextBlob(text) or blob.sentiment.polarity raises
TextBlobRaises(x) == x = NoneText

\* Mutant of _analyze_with_textblob: the thresholds belong to the labels
AnalyzeWithTextblobInclusive(tb, x) ==
    IF tb /\ ~TextBlobRaises(x)
    THEN [label |-> IF x.polarity >= PolarityThreshold THEN "positive"
                    ELSE IF x.polarity <= -PolarityThreshold THEN "negative"
                    ELSE "neutral",
          score |-> x.polarity,
          confidence |-> TextblobConfidence]
    ELSE [label |-> "neutral", score |-> 0, confidence |-> FinalFallbackConfidence]

_analyze_with_textblob(tb, x) ==
    IF tb /\ ~TextBlobRaises(x)
    THEN [label |-> IF x.polarity > PolarityThreshold THEN "positive"
                    ELSE IF x.polarity < -PolarityThreshold THEN "negative"
                    ELSE "neutral",
          score |-> x.polarity,
          confidence |-> TextblobConfidence]
    ELSE [label |-> "neutral", score |-> 0, confidence |-> FinalFallbackConfidence]

\* The except clause of analyze_sentiment
SentimentOnError(tb, x) ==
    [raised |-> FALSE, path |-> "fallback", value |-> _analyze_with_textblob(tb, x)]

SentimentBody(loaded, mdl, tb, x, out) ==
    IF ~loaded
    THEN [raised |-> FALSE, path |-> "fallback", value |-> _analyze_with_textblob(tb, x)]
    ELSE IF InferenceRaises(mdl)
    THEN SentimentOnError(tb, x)
    ELSE [raised |-> FALSE, path |-> "model",
          value |-> [label |-> out.label,
                     score |-> IF tb THEN x.polarity ELSE 0,
                     confidence |-> out.confidence]]

----------------------------------------------------------------------------
(* OccupancyPredictor *)

Max(a, b) == IF a >= b THEN a ELSE b
Min(a, b) == IF a <= b THEN a ELSE b

\* Mutant of _calculate_current_occupancy: the default is 0
CurrentOccupancyZero == [occupancy_rate |-> 0]

_calculate_current_occupancy == [occupancy_rate |-> DefaultOccupancy]

\* Mutant of Clamp: only the upper end is enforced
ClampUpperOnly(prediction) == Min(FullOccupancy, prediction)

\* max(0, min(100, prediction))
Clamp(prediction) == Max(0, Min(FullOccupancy, prediction))

\* Mutant of OccupancyOnError: the handler answers 0 instead of the default
OccupancyOnErrorZero ==
    [raised |-> FALSE, path |-> "fallback", value |-> [occupancy_rate |-> 0]]

\* The except clause of predict_occupancy
OccupancyOnError ==
    [raised |-> FALSE, path |-> "fallback", value |-> _calculate_current_occupancy]

OccupancyBody(loaded, mdl, x, out) ==
    IF ~loaded
    THEN [raised |-> FALSE, path |-> "fallback", value |-> _calculate_current_occupancy]
    ELSE IF InferenceRaises(mdl)
    THEN OccupancyOnError
    ELSE [raised |-> FALSE, path |-> "model",
          value |-> [occupancy_rate |-> Clamp(out.raw)]]

----------------------------------------------------------------------------
(* predict: classify_complaint / analyze_sentiment / predict_occupancy *)

\* A call that does not touch the store
NoLoad(tr, mdl) ==
    [ret |-> tr, is_trained |-> tr, model |-> mdl, observed |-> "none", raised |-> FALSE]

\* Mutant of PredictLoad: the load runs whether or not the instance is trained
PredictLoadAlways(tr, mdl, st, ioFail) == LoadModel(tr, mdl, st, ioFail)

\* `if not self.is_trained and not self.load_model()`: the load runs only when
\* the instance is untrained; ret: the model path is taken.
PredictLoad(tr, mdl, st, ioFail) ==
    IF tr THEN NoLoad(tr, mdl) ELSE LoadModel(tr, mdl, st, ioFail)

PredictResult(k, tb, ld, x, out) ==
    IF k = "complaint" THEN ClassifyBody(ld.ret, ld.model, x, out)
    ELSE IF k = "sentiment" THEN SentimentBody(ld.ret, ld.model, tb, x, out)
    ELSE OccupancyBody(ld.ret, ld.model, x, out)

CallRecord(p, op, x, value, path, ld, failed, raised) ==
    [proc |-> p, op |-> op, arg |-> x, value |-> value, path |-> path,
     observed |-> ld.observed, failed |-> failed, raised |-> raised,
     pre_trained |-> is_trained[p], pre_model |-> model[p]]

\* The answers of the fitted model that the call can consume: one only
\* matters when the model path runs to its end.
OutputsFor(k, ld) ==
    IF ld.ret /\ ~InferenceRaises(ld.model)
    THEN ModelOutputs(k)
    ELSE {CHOOSE out \in ModelOutputs(k) : TRUE}

\* joblib.load can only fail on a complete file it is asked to read
IoFailures(tr, st) == IF ~tr /\ st = "fitted" THEN BOOLEAN ELSE {FALSE}

Predict(p) ==
    /\ ppc[p].at = "idle"
    /\ \E x \in Inputs(kind), ioFail \in IoFailures(is_trained[p], store) :
         LET ld == PredictLoad(is_trained[p], model[p], store, ioFail)
         IN  \E out \in OutputsFor(kind, ld) :
               LET res == PredictResult(kind, textblob, ld, x, out)
               IN  /\ is_trained' = [is_trained EXCEPT ![p] = ld.is_trained]
                   /\ model' = [model EXCEPT ![p] = ld.model]
                   /\ call' = CallRecord(p, "predict", x, res.value, res.path,
                                         ld, "none", ld.raised \/ res.raised)
    /\ UNCHANGED <<kind, textblob, store, ppc>>
    /\ UNCHANGED bookVars
    /\ UNCHANGED appVars

\* The texts _analyze_with_textblob is called with
TextblobInputs == SentimentInputs \cup {NoneText}

\* sentiment_analyzer._analyze_with_textblob(text), called by itself
AnalyzeWithTextblob(p) ==
    /\ kind = "sentiment"
    /\ ppc[p].at = "idle"
    /\ \E x \in TextblobInputs :
         call' = CallRecord(p, "textblob", x, _analyze_with_textblob(textblob, x),
                            "fallback", NoLoad(is_trained[p], model[p]), "none", FALSE)
    /\ UNCHANGED <<kind, textblob, is_trained, model, store, ppc>>
    /\ UNCHANGED bookVars
    /\ UNCHANGED appVars

Load(p) ==
    /\ ppc[p].at = "idle"
    /\ \E ioFail \in IoFailures(FALSE, store) :
         LET ld == LoadModel(is_trained[p], model[p], store, ioFail)
         IN  /\ is_trained' = [is_trained EXCEPT ![p] = ld.is_trained]
             /\ model' = [model EXCEPT ![p] = ld.model]
             /\ call' = CallRecord(p, "load", NoValue, [ret |-> ld.ret], "none",
                                   ld, "none", ld.raised)
    /\ UNCHANGED <<kind, textblob, store, ppc>>
    /\ UNCHANGED bookVars
    /\ UNCHANGED appVars

----------------------------------------------------------------------------
(* train_model, the same in the three classes *)

\* The step of train_model that raises; "none": nothing raises before
\* joblib.dump has opened the file.
TrainFailures == {"split", "fit", "eval", "makedirs", "none"}

\* The instance after train_model has run up to joblib.dump (or up to the
\* step that raised); dump: joblib.dump is reached.
TrainUpToDump(tr, mdl, failAt) ==
    IF failAt = "split" THEN [is_trained |-> tr, model |-> mdl, dump |-> FALSE]
    ELSE IF failAt = "fit" THEN [is_trained |-> tr, model |-> "unfitted", dump |-> FALSE]
    ELSE IF failAt \in {"eval", "makedirs"}
    THEN [is_trained |-> TRUE, model |-> "fitted", dump |-> FALSE]
    ELSE [is_trained |-> TRUE, model |-> "fitted", dump |-> TRUE]

\* The except clause of train_model: the error is printed, nothing is raised
TrainErrorPropagates == FALSE

\* The file once a joblib.dump has ended. joblib.dump writes the file in
\* place, so with another dump under way, or when this one raised, the file
\* may be left incomplete.
DumpOutcomes(mdl, ok, otherDumping) ==
    IF ok /\ ~otherDumping THEN {mdl} ELSE {"partial", mdl}

\* A process that is not inside train_model
Idle == [at |-> "idle", pre_trained |-> FALSE, pre_model |-> "none"]

Train(p) ==
    /\ ppc[p].at = "idle"
    /\ \E failAt \in TrainFailures :
         LET t == TrainUpToDump(is_trained[p], model[p], failAt)
         IN  /\ is_trained' = [is_trained EXCEPT ![p] = t.is_trained]
             /\ model' = [model EXCEPT ![p] = t.model]
             /\ IF t.dump
                THEN /\ ppc' = [ppc EXCEPT ![p] = [at |-> "dumping",
                                                     pre_trained |-> is_trained[p],
                                                     pre_model |-> model[p]]]
                     /\ store' = "partial"
                     /\ call' = CallRecord(p, "train_dumping", NoValue, NoValue,
                                           "none", NoLoad(t.is_trained, t.model), "none", FALSE)
                ELSE /\ UNCHANGED <<ppc, store>>
                     /\ call' = CallRecord(p, "train", NoValue, NoValue,
                                           "none", NoLoad(t.is_trained, t.model), failAt,
                                           failAt # "none" /\ TrainErrorPropagates)
    /\ UNCHANGED <<kind, textblob>>
    /\ UNCHANGED bookVars
    /\ UNCHANGED appVars

DumpEnd(p) ==
    /\ ppc[p].at = "dumping"
    /\ \E ok \in BOOLEAN :
         /\ store' \in DumpOutcomes(model[p], ok,
                                     \E q \in Procs \ {p} : ppc[q].at = "dumping")
         /\ call' = [CallRecord(p, "train", NoValue, NoValue, "none",
                                NoLoad(is_trained[p], model[p]),
                                IF ok THEN "none" ELSE "dump",
                                ~ok /\ TrainErrorPropagates)
                     EXCEPT !.pre_trained = ppc[p].pre_trained,
                            !.pre_model = ppc[p].pre_model]
    /\ ppc' = [ppc EXCEPT ![p] = Idle]
    /\ UNCHANGED <<kind, textblob, is_trained, model>>
    /\ UNCHANGED bookVars
    /\ UNCHANGED appVars

----------------------------------------------------------------------------
(* get_occupancy_trend *)

\* The largest number of days a sample call asks for
MaxDays == 2

\* Calendar dates: the date part of a datetime
Years == 2024 .. 2027
IsLeap(y) == (y % 4 = 0 /\ y % 100 # 0) \/ y % 400 = 0
DaysInMonth(y, mo) ==
    IF mo = 2 THEN (IF IsLeap(y) THEN 29 ELSE 28)
    ELSE IF mo \in {4, 6, 9, 11} THEN 30
    ELSE 31

\* datetime.toordinal: days since 0001-01-01, which is day 1
DaysBeforeYear(y) ==
    (y - 1) * 365 + (y - 1) \div 4 - (y - 1) \div 100 + (y - 1) \div 400

RECURSIVE DaysBeforeMonth(_, _)
DaysBeforeMonth(y, mo) ==
    IF mo = 1 THEN 0 ELSE DaysBeforeMonth(y, mo - 1) + DaysInMonth(y, mo - 1)

ToOrdinal(d) == DaysBeforeYear(d.year) + DaysBeforeMonth(d.year, d.month) + d.day

\* datetime.fromordinal, for the years of the samples
FromOrdinal(n) ==
    LET y == CHOOSE yy \in Years : DaysBeforeYear(yy) < n /\ n <= DaysBeforeYear(yy + 1)
        rest == n - DaysBeforeYear(y)
        mo == CHOOSE mm \in 1 .. 12 :
                /\ DaysBeforeMonth(y, mm) < rest
                /\ rest <= DaysBeforeMonth(y, mm) + DaysInMonth(y, mm)
    IN  [year |-> y, month |-> mo, day |-> rest - DaysBeforeMonth(y, mo)]

\* date.weekday(): Monday is 0
Weekday(d) == (ToOrdinal(d) + 6) % 7

\* Mutant of TrendDate: the offsets start at one day
TrendDateFromTomorrow(current_date, i) == FromOrdinal(ToOrdinal(current_date) + i + 1)

\* current_date + timedelta(days=i)
TrendDate(current_date, i) == FromOrdinal(ToOrdinal(current_date) + i)

\* The features predict_occupancy hands to the regressor
Features(date) ==
    [month |-> date.month, weekday |-> Weekday(date),
     is_weekend |-> IF Weekday(date) >= 5 THEN 1 ELSE 0,
     is_academic |-> IF date.month \in {8, 9, 10, 11, 1, 2, 3, 4} THEN 1 ELSE 0]

\* date.strftime('%Y-%m-%d')
Digits == <<"0", "1", "2", "3", "4", "5", "6", "7", "8", "9">>
Pad2(n) == <<Digits[((n \div 10) % 10) + 1], Digits[(n % 10) + 1]>>
Strftime(d) ==
    Pad2(d.year \div 100) \o Pad2(d.year % 100) \o <<"-">> \o Pad2(d.month)
      \o <<"-">> \o Pad2(d.day)

\* round(v, 2) of a rate v >= 0 in thousandths: the nearest hundredth, and
\* the even one for a value exactly half way between two hundredths.
Round2(v) ==
    LET r == v % 10
        down == v - r
    IN  IF r < 5 THEN down
        ELSE IF r > 5 THEN down + 10
        ELSE IF (down \div 10) % 2 = 0 THEN down ELSE down + 10

\* datetime.now() of the sample calls
SampleTodays ==
    {[year |-> 2024, month |-> 2, day |-> 28],
     [year |-> 2025, month |-> 12, day |-> 31],
     [year |-> 2026, month |-> 11, day |-> 30]}

\* The date of each iteration of a trend asked on each sample day, with its
\* features and its text, computed once
TrendDays ==
    [current_date \in SampleTodays |->
        [i \in 0 .. MaxDays - 1 |->
            LET date == TrendDate(current_date, i)
            IN  [date |-> date, features |-> Features(date), text |-> Strftime(date)]]]

\* The loop of get_occupancy_trend from iteration i on. acc: the instance
\* and the list so far; predicted: the dates handed to predict_occupancy
\* with the values it returned. outs: the regressor's answers, firstOk: the
\* first iteration whose joblib.load does not raise.
RECURSIVE TrendLoop(_, _, _, _, _, _, _)
TrendLoop(i, days, acc, st, current_date, outs, firstOk) ==
    IF i >= days THEN acc
    ELSE LET day == TrendDays[current_date][i]
             ld == PredictLoad(acc.is_trained, acc.model, st, i + 1 < firstOk)
             predicted_occupancy ==
                 PredictResult("occupancy", TRUE, ld, day.features,
                               outs[i + 1]).value.occupancy_rate
         IN  TrendLoop(i + 1, days,
                       [is_trained |-> ld.is_trained,
                        model |-> ld.model,
                        trend |-> Append(acc.trend,
                                    [date |-> day.text,
                                     occupancy_rate |-> Round2(predicted_occupancy)]),
                        predicted |-> Append(acc.predicted,
                                    [date |-> day.date, value |-> predicted_occupancy])],
                       st, current_date, outs, firstOk)

\* The regressor's answers a call of `days` iterations can consume
TrendOutputs(tr, mdl, st, days) ==
    IF (tr /\ ~InferenceRaises(mdl)) \/ (~tr /\ st = "fitted")
    THEN [1 .. days -> ModelOutputs("occupancy")]
    ELSE {[i \in 1 .. days |-> CHOOSE out \in ModelOutputs("occupancy") : TRUE]}

\* The iterations at which the first successful joblib.load can happen
FirstOks(tr, st, days) == IF ~tr /\ st = "fitted" THEN 1 .. days + 1 ELSE {1}

get_occupancy_trend(p) ==
    /\ ppc[p].at = "idle"
    /\ \E days \in 0 .. MaxDays, current_date \in SampleTodays :
         \E outs \in TrendOutputs(is_trained[p], model[p], store, days),
            firstOk \in FirstOks(is_trained[p], store, days) :
           LET run == TrendLoop(0, days,
                                [is_trained |-> is_trained[p], model |-> model[p],
                                 trend |-> <<>>, predicted |-> <<>>],
                                store, current_date, outs, firstOk)
           IN  /\ is_trained' = [is_trained EXCEPT ![p] = run.is_trained]
               /\ model' = [model EXCEPT ![p] = run.model]
               /\ call' = CallRecord(p, "trend",
                                     [days |-> days, today |-> current_date],
                                     [trend |-> run.trend, predicted |-> run.predicted],
                                     "none", NoLoad(run.is_trained, run.model),
                                     "none", FALSE)
    /\ UNCHANGED <<kind, textblob, store, ppc>>
    /\ UNCHANGED bookVars
    /\ UNCHANGED appVars

----------------------------------------------------------------------------
(* book_room *)

\* (check_out - check_in).days of the submitted form
StayDays == {-1, 0, 1}

\* approval_prediction['confidence'] in hundredths
Confidences == {70, 71}

\* booking_approver.predict_booking_approval(booking, current_occupancy)
ApprovalOutputs == [approved : BOOLEAN, confidence : Confidences]

ApprovalThreshold == 70

\* Mutant of AutoApprove: the comparison admits the threshold itself
AutoApproveAtLeast(pred) == pred.approved /\ pred.confidence >= ApprovalThreshold

\* `if approval_prediction['approved'] and approval_prediction['confidence'] > 0.7`
AutoApprove(pred) == pred.approved /\ pred.confidence > ApprovalThreshold

\* datetime.now() of the web process, as calendar features
Today == [month |-> 1, weekday |-> 0]

\* The process whose predictor instances the web application uses
WebProc == 1

\* No committed row under this booking id
NoBooking == [room |-> 0, status |-> "none"]

NewRequest ==
    [pc |-> "start", room |-> 0, room_avail |-> FALSE, status |-> "none",
     room_dirty |-> FALSE, pred |-> NoValue, outcome |-> "none"]

Finished(q, outcome) == [q EXCEPT !.pc = "done", !.outcome = outcome]

\* From the route's entry to db.session.flush(): the room row is read, the
\* form is validated and the pending booking is added to the session.
BookBegin(r) ==
    /\ req[r].pc = "start"
    /\ \E room_id \in RoomIds \cup {0}, has_student \in BOOLEAN, valid \in BOOLEAN,
          days \in StayDays, flushFails \in BOOLEAN :
         req' = [req EXCEPT ![r] =
            IF room_id \notin DOMAIN rooms THEN Finished(req[r], "404")
            ELSE IF ~has_student THEN Finished(req[r], "redirect")
            ELSE IF ~valid THEN Finished(req[r], "form")
            ELSE IF days <= 0 THEN Finished(req[r], "invalid_dates")
            ELSE IF flushFails THEN Finished(req[r], "rolled_back")
            ELSE [req[r] EXCEPT !.pc = "flushed",
                                !.room = room_id,
                                !.room_avail = rooms[room_id],
                                !.status = "pending"]]
    /\ UNCHANGED <<rooms, bookings>>
    /\ UNCHANGED predVars
    /\ UNCHANGED appVars

\* Mutant of Decide: an auto-approved booking is confirmed and the room's
\* flag is left alone
DecideStatusOnly(q, pred) ==
    IF AutoApprove(pred)
    THEN [q EXCEPT !.pc = "decided", !.pred = pred, !.status = "confirmed"]
    ELSE [q EXCEPT !.pc = "decided", !.pred = pred]

\* The booking's status and the room's flag in the session after the decision
Decide(q, pred) ==
    IF AutoApprove(pred)
    THEN [q EXCEPT !.pc = "decided", !.pred = pred,
                   !.status = "confirmed", !.room_dirty = TRUE]
    ELSE [q EXCEPT !.pc = "decided", !.pred = pred]

\* occupancy_predictor.predict_occupancy(), the approval prediction and the
\* decision, all on the session's objects.
BookPredict(r) ==
    /\ req[r].pc = "flushed"
    /\ kind = "occupancy"
    /\ \E x \in {Today}, ioFail \in IoFailures(is_trained[WebProc], store) :
       LET ld == PredictLoad(is_trained[WebProc], model[WebProc], store, ioFail)
       IN  \E out \in OutputsFor("occupancy", ld) :
         LET res == OccupancyBody(ld.ret, ld.model, x, out)
         IN  /\ is_trained' = [is_trained EXCEPT ![WebProc] = ld.is_trained]
             /\ model' = [model EXCEPT ![WebProc] = ld.model]
             /\ call' = CallRecord(WebProc, "predict", x, res.value, res.path,
                                   ld, "none", ld.raised \/ res.raised)
             /\ \E approvalRaises \in BOOLEAN, pred \in ApprovalOutputs :
                  req' = [req EXCEPT ![r] =
                     IF res.raised \/ approvalRaises
                     THEN Finished(NewRequest, "rolled_back")
                     ELSE Decide(req[r], pred)]
    /\ UNCHANGED <<kind, textblob, store, ppc, rooms, bookings>>
    /\ UNCHANGED appVars

\* Mutant of Commit: a commit that raises has written the booking row
CommitHalfWritten(r) ==
    /\ req[r].pc = "decided"
    /\ \E commitFails \in BOOLEAN :
         /\ bookings' = [bookings EXCEPT ![r] = [room |-> req[r].room,
                                                 status |-> req[r].status]]
         /\ IF commitFails
            THEN /\ req' = [req EXCEPT ![r] = Finished(NewRequest, "rolled_back")]
                 /\ UNCHANGED rooms
            ELSE /\ rooms' = IF req[r].room_dirty
                             THEN [rooms EXCEPT ![req[r].room] = FALSE]
                             ELSE rooms
                 /\ req' = [req EXCEPT ![r] = Finished(req[r], "committed")]
    /\ UNCHANGED predVars
    /\ UNCHANGED appVars

\* db.session.commit(): the booking row and, when the session changed it,
\* the room's flag are written in one transaction.
Commit(r) ==
    /\ req[r].pc = "decided"
    /\ \E commitFails \in BOOLEAN :
         IF commitFails
         THEN /\ req' = [req EXCEPT ![r] = Finished(NewRequest, "rolled_back")]
              /\ UNCHANGED <<rooms, bookings>>
         ELSE /\ bookings' = [bookings EXCEPT ![r] = [room |-> req[r].room,
                                                      status |-> req[r].status]]
              /\ rooms' = IF req[r].room_dirty
                          THEN [rooms EXCEPT ![req[r].room] = FALSE]
                          ELSE rooms
              /\ req' = [req EXCEPT ![r] = Finished(req[r], "committed")]
    /\ UNCHANGED predVars
    /\ UNCHANGED appVars

----------------------------------------------------------------------------
(* student_complaints *)

\* Line of create_app's `return app`, and of the def statements of the two
\* manual mappings inside create_app
CreateAppReturnLine == 759
GetManualCategoryLine == 823
GetManualPriorityLine == 840

\* Mutant of DefinedInCreateApp: every def statement of the body is executed
DefinedAnywhere(defLine) == TRUE

\* A def statement in create_app's body binds its name only if it is
\* executed, that is if it stands before the return; calling a name that was
\* never bound raises NameError.
DefinedInCreateApp(defLine) == defLine < CreateAppReturnLine

ManualInternetWords ==
    << <<"w", "i", "f", "i">>,
       <<"i", "n", "t", "e", "r", "n", "e", "t">>,
       <<"n", "e", "t", "w", "o", "r", "k">>,
       <<"o", "n", "l", "i", "n", "e">>,
       <<"c", "o", "n", "n", "e", "c", "t", "i", "o", "n">> >>

ManualCleaningWords ==
    << <<"c", "l", "e", "a", "n">>,
       <<"d", "i", "r", "t", "y">>,
       <<"d", "u", "s", "t">>,
       <<"s", "w", "e", "e", "p">>,
       <<"m", "o", "p">>,
       <<"h", "y", "g", "i", "e", "n", "e">> >>

ManualPlumbingWords ==
    << <<"w", "a", "t", "e", "r">>,
       <<"l", "e", "a", "k">>,
       <<"p", "i", "p", "e">>,
       <<"b", "a", "t", "h", "r", "o", "o", "m">>,
       <<"t", "a", "p">>,
       <<"d", "r", "a", "i", "n">> >>

ManualFurnitureWords ==
    << <<"b", "e", "d">>,
       <<"c", "h", "a", "i", "r">>,
       <<"t", "a", "b", "l", "e">>,
       <<"f", "u", "r", "n", "i", "t", "u", "r", "e">>,
       <<"c", "u", "p", "b", "o", "a", "r", "d">>,
       <<"a", "l", "m", "i", "r", "a", "h">> >>

ManualElectricalWords ==
    << <<"l", "i", "g", "h", "t">>,
       <<"f", "a", "n">>,
       <<"s", "w", "i", "t", "c", "h">>,
       <<"e", "l", "e", "c", "t", "r", "i", "c", "a", "l">>,
       <<"p", "o", "w", "e", "r">>,
       <<"s", "o", "c", "k", "e", "t">> >>

ManualHighWords ==
    << <<"e", "m", "e", "r", "g", "e", "n", "c", "y">>,
       <<"u", "r", "g", "e", "n", "t">>,
       <<"i", "m", "m", "e", "d", "i", "a", "t", "e", "l", "y">>,
       <<"c", "r", "i", "t", "i", "c", "a", "l">>,
       <<"f", "l", "o", "o", "d">>,
       <<"f", "i", "r", "e">>,
       <<"w", "i", "f", "i">>,
       <<"i", "n", "t", "e", "r", "n", "e", "t">>,
       <<"e", "x", "a", "m">>,
       <<"s", "t", "u", "d", "y">> >>

ManualMediumWords ==
    << <<"n", "o", "t", " ", "w", "o", "r", "k", "i", "n", "g">>,
       <<"b", "r", "o", "k", "e", "n">>,
       <<"i", "s", "s", "u", "e">>,
       <<"p", "r", "o", "b", "l", "e", "m">>,
       <<"l", "e", "a", "k">> >>


get_manual_category(title, description) ==
    LET text == Lower(Combined(title, description))
    IN  IF AnyIn(text, ManualInternetWords) THEN "internet"
        ELSE IF AnyIn(text, ManualCleaningWords) THEN "cleaning"
        ELSE IF AnyIn(text, ManualPlumbingWords) THEN "plumbing"
        ELSE IF AnyIn(text, ManualFurnitureWords) THEN "furniture"
        ELSE IF AnyIn(text, ManualElectricalWords) THEN "electrical"
        ELSE "other"

get_manual_priority(title, description) ==
    LET text == Lower(Combined(title, description))
    IN  IF AnyIn(text, ManualHighWords) THEN "high"
        ELSE IF AnyIn(text, ManualMediumWords) THEN "medium"
        ELSE "low"

\* The two manual mappings of each sample complaint, computed once
ManualOf ==
    [x \in ComplaintInputs |->
        [category |-> get_manual_category(x.title, x.description),
         priority |-> get_manual_priority(x.title, x.description)]]

\* Complaint.category: the values of the column's Enum
CategoryEnum == {"electrical", "plumbing", "cleaning", "furniture", "other"}

\* What the database keeps of a category on commit: a value outside the
\* Enum is refused (MySQL in strict mode) or kept as the empty string
\* (MySQL otherwise).
StoredCategories(category) ==
    IF category \in CategoryEnum THEN {category} ELSE {"refused", ""}

NoComplaint == [status |-> "none"]

\* The row Complaint(..., status='new') inserts: admin_notes and resolved_at
\* have no default and are NULL
NewComplaint(x, category, priority) ==
    [status |-> "new", title |-> x.title, description |-> x.description,
     category |-> category, priority |-> priority,
     admin_notes |-> "null", resolved_at |-> "null"]

NewComplaintRequest == [pc |-> "start", x |-> NoValue, outcome |-> "none"]

\* From the route's entry to the try block: the student's profile is looked
\* up and the form is validated.
ComplaintBegin(r) ==
    /\ creq[r].pc = "start"
    /\ \E has_student \in BOOLEAN, valid \in BOOLEAN, x \in ComplaintInputs :
         creq' = [creq EXCEPT ![r] =
            IF ~has_student THEN [pc |-> "done", x |-> NoValue, outcome |-> "redirect"]
            ELSE IF ~valid THEN [pc |-> "done", x |-> NoValue, outcome |-> "form"]
            ELSE [pc |-> "try", x |-> x, outcome |-> "none"]]
    /\ UNCHANGED <<complaints, resp, boot>>
    /\ UNCHANGED predVars
    /\ UNCHANGED bookVars

\* The try block: the two mappings are called, the Complaint is added and
\* committed; any exception rolls the session back.
ComplaintSave(r) ==
    /\ creq[r].pc = "try"
    /\ LET x == creq[r].x
           nameError == \/ ~DefinedInCreateApp(GetManualCategoryLine)
                        \/ ~DefinedInCreateApp(GetManualPriorityLine)
       IN  IF nameError
           THEN /\ creq' = [creq EXCEPT ![r] = [pc |-> "done", x |-> x,
                                                outcome |-> "error"]]
                /\ UNCHANGED complaints
           ELSE \E commitFails \in BOOLEAN,
                   stored \in StoredCategories(ManualOf[x].category) :
                  IF commitFails \/ stored = "refused"
                  THEN /\ creq' = [creq EXCEPT ![r] =
                                     [pc |-> "done", x |-> x,
                                      outcome |-> IF commitFails THEN "db_error"
                                                  ELSE "error"]]
                       /\ UNCHANGED complaints
                  ELSE /\ creq' = [creq EXCEPT ![r] = [pc |-> "done", x |-> x,
                                                       outcome |-> "saved"]]
                       /\ complaints' = [complaints EXCEPT ![r] =
                                           NewComplaint(x, stored,
                                                        ManualOf[x].priority)]
    /\ UNCHANGED <<resp, boot>>
    /\ UNCHANGED predVars
    /\ UNCHANGED bookVars

----------------------------------------------------------------------------
(* Admin booking management *)

\* No admin request has been answered yet
NoResponse == [op |-> "none", user |-> "none", arg |-> NoValue, status |-> 0, body |-> NoValue]

\* The answer to request `op` sent by `user` with the JSON arguments `arg`
Response(op, user, arg, status, body) ==
    [op |-> op, user |-> user, arg |-> arg, status |-> status, body |-> body]

\* Who runs the batch: an admin through the endpoint, nobody at startup
UserOf(caller) == IF caller = "create_app" THEN "none" ELSE "admin"

Unauthorized == [success |-> FALSE, error |-> "Unauthorized"]
ServerError == [success |-> FALSE, error |-> "exception"]

\* The bookings a scan for status 'pending' finds
Pending(bk) == {b \in Reqs : bk[b].status = "pending"}

\* booking_approver.auto_approve_pending_bookings(): of the pending bookings,
\* those the approval rule qualifies (Q) are set to 'confirmed' and their
\* rooms to unavailable; the number promoted is returned.
auto_approve_pending_bookings(bk, rm, Q) ==
    [bookings |-> [b \in Reqs |-> IF b \in Q
                                   THEN [bk[b] EXCEPT !.status = "confirmed"]
                                   ELSE bk[b]],
     rooms |-> [i \in DOMAIN rm |-> IF \E b \in Q : bk[b].room = i
                                   THEN FALSE
                                   ELSE rm[i]],
     count |-> Cardinality(Q)]

\* Mutant of AutoApproveBody: the response reports the bookings scanned
AutoApproveBodyScanned(approved_count, scanned) ==
    [success |-> TRUE, approved_count |-> scanned]

\* The JSON body auto_approve_bookings answers with
AutoApproveBody(approved_count, scanned) ==
    [success |-> TRUE, approved_count |-> approved_count]

\* A run of the batch by `caller`: the occupancy estimate is taken, the
\* batch runs in one transaction and the caller's try block answers; an
\* exception leaves the tables as they were.
RunAutoApprove(caller) ==
    /\ kind = "occupancy"
    /\ \E ioFail \in IoFailures(is_trained[WebProc], store) :
       LET ld == PredictLoad(is_trained[WebProc], model[WebProc], store, ioFail)
       IN  \E out \in OutputsFor("occupancy", ld) :
         LET res == OccupancyBody(ld.ret, ld.model, Today, out)
         IN  /\ is_trained' = [is_trained EXCEPT ![WebProc] = ld.is_trained]
             /\ model' = [model EXCEPT ![WebProc] = ld.model]
             /\ call' = CallRecord(WebProc, "predict", Today, res.value, res.path,
                                   ld, "none", ld.raised \/ res.raised)
    /\ \E raises \in BOOLEAN, Q \in SUBSET Pending(bookings) :
         IF raises
         THEN /\ resp' = Response(caller, UserOf(caller), NoValue, 500, ServerError)
              /\ UNCHANGED <<rooms, bookings>>
         ELSE LET batch == auto_approve_pending_bookings(bookings, rooms, Q)
              IN  /\ bookings' = batch.bookings
                  /\ rooms' = batch.rooms
                  /\ resp' = Response(caller, UserOf(caller), NoValue, 200,
                                      AutoApproveBody(batch.count,
                                                      Cardinality(Pending(bookings))))
    /\ UNCHANGED <<kind, textblob, store, ppc, req, complaints, creq>>

\* POST /admin/auto-approve-bookings
auto_approve_bookings ==
    \/ /\ resp' = Response("auto_approve_bookings", "student", NoValue, 403, Unauthorized)
       /\ UNCHANGED <<rooms, bookings, req, complaints, creq, boot>>
       /\ UNCHANGED predVars
    \/ /\ RunAutoApprove("auto_approve_bookings")
       /\ UNCHANGED boot

\* The statements of create_app's startup try block, in program order
StartupSteps ==
    <<"db_check", "create_all", "load_sentiment", "load_occupancy",
      "load_complaint", "load_approver", "auto_approve">>

\* The load_model calls of the block
LoadSteps == {"load_sentiment", "load_occupancy", "load_complaint", "load_approver"}

\* The statement after `step`; after the last one the try block is left and
\* the routes are defined
StepAfter(step) ==
    LET i == CHOOSE j \in DOMAIN StartupSteps : StartupSteps[j] = step
    IN  IF i = Len(StartupSteps) THEN "routes" ELSE StartupSteps[i + 1]

\* A process entering the startup block
Booting == [pc |-> "db_check", done |-> << >>, raised |-> "none"]

\* A process whose create_app has returned after a complete startup
Serving == [pc |-> "returned", done |-> StartupSteps, raised |-> "none"]

\* A process that has reached the startup batch
AtBatch == [pc |-> "auto_approve", done |-> SubSeq(StartupSteps, 1, 6), raised |-> "none"]

\* Mutant of AfterStep: a statement that raises is passed over and the
\* block goes on with the next one
AfterStepResuming(b, raises) ==
    IF raises
    THEN [b EXCEPT !.pc = StepAfter(b.pc), !.raised = b.pc]
    ELSE [b EXCEPT !.pc = StepAfter(b.pc), !.done = Append(b.done, b.pc)]

\* The position after the statement at b.pc ran: the next statement, or the
\* except clause when it raised
AfterStep(b, raises) ==
    IF raises
    THEN [b EXCEPT !.pc = "except", !.raised = b.pc]
    ELSE [b EXCEPT !.pc = StepAfter(b.pc), !.done = Append(b.done, b.pc)]

\* db.session.execute(text('SELECT 1'))
StartupDbCheck ==
    /\ boot.pc = "db_check"
    /\ \E raises \in BOOLEAN : boot' = AfterStep(boot, raises)
    /\ UNCHANGED <<complaints, creq, resp>>
    /\ UNCHANGED predVars
    /\ UNCHANGED bookVars

\* db.create_all(): missing tables are created, rows are left alone
StartupCreateAll ==
    /\ boot.pc = "create_all"
    /\ \E raises \in BOOLEAN : boot' = AfterStep(boot, raises)
    /\ UNCHANGED <<complaints, creq, resp>>
    /\ UNCHANGED predVars
    /\ UNCHANGED bookVars

\* The four load_model() calls. load_model of the three predictor classes
\* catches its own exceptions; the instance the model follows is the
\* occupancy predictor's. booking_approver.load_model() may raise.
StartupLoad ==
    /\ boot.pc \in LoadSteps
    /\ kind = "occupancy"
    /\ IF boot.pc = "load_occupancy"
       THEN /\ \E ioFail \in IoFailures(FALSE, store) :
                 LET ld == LoadModel(is_trained[WebProc], model[WebProc], store, ioFail)
                 IN  /\ is_trained' = [is_trained EXCEPT ![WebProc] = ld.is_trained]
                     /\ model' = [model EXCEPT ![WebProc] = ld.model]
                     /\ call' = CallRecord(WebProc, "load", NoValue, [ret |-> ld.ret],
                                           "none", ld, "none", ld.raised)
            /\ boot' = AfterStep(boot, FALSE)
       ELSE /\ \E raises \in (IF boot.pc = "load_approver" THEN BOOLEAN ELSE {FALSE}) :
                 boot' = AfterStep(boot, raises)
            /\ UNCHANGED <<is_trained, model, call>>
    /\ UNCHANGED <<kind, textblob, store, ppc>>
    /\ UNCHANGED <<complaints, creq, resp>>
    /\ UNCHANGED bookVars

\* create_app: the batch run on startup, inside the startup try block
StartupAutoApprove ==
    /\ boot.pc = "auto_approve"
    /\ RunAutoApprove("create_app")
    /\ boot' = AfterStep(boot, resp'.status = 500)

\* `except Exception as e: print(...)`: the exception ends here
StartupExcept ==
    /\ boot.pc = "except"
    /\ boot' = [boot EXCEPT !.pc = "routes"]
    /\ UNCHANGED <<complaints, creq, resp>>
    /\ UNCHANGED predVars
    /\ UNCHANGED bookVars

\* The route definitions and `return app`
StartupReturn ==
    /\ boot.pc = "routes"
    /\ boot' = [boot EXCEPT !.pc = "returned"]
    /\ UNCHANGED <<complaints, creq, resp>>
    /\ UNCHANGED predVars
    /\ UNCHANGED bookVars

\* Mutant of approve_booking: the is_admin check is missing
ApproveByAnyone(b) ==
    /\ \E is_admin \in BOOLEAN, commitFails \in BOOLEAN :
         LET user == IF is_admin THEN "admin" ELSE "student"
         IN  IF bookings[b] = NoBooking \/ commitFails
             THEN /\ resp' = Response("approve_booking", user, NoValue, 500, ServerError)
                  /\ UNCHANGED <<rooms, bookings>>
             ELSE /\ bookings' = [bookings EXCEPT ![b].status = "confirmed"]
                  /\ rooms' = [rooms EXCEPT ![bookings[b].room] = FALSE]
                  /\ resp' = Response("approve_booking", user, NoValue, 200,
                                      [success |-> TRUE])
    /\ UNCHANGED <<req, complaints, creq, boot>>
    /\ UNCHANGED predVars

\* POST /admin/approve-booking/<booking_id>
approve_booking(b) ==
    /\ \E is_admin \in BOOLEAN, commitFails \in BOOLEAN :
         IF ~is_admin
         THEN /\ resp' = Response("approve_booking", "student", NoValue, 403, Unauthorized)
              /\ UNCHANGED <<rooms, bookings>>
         ELSE IF bookings[b] = NoBooking \/ commitFails
         THEN /\ resp' = Response("approve_booking", "admin", NoValue, 500, ServerError)
              /\ UNCHANGED <<rooms, bookings>>
         ELSE /\ bookings' = [bookings EXCEPT ![b].status = "confirmed"]
              /\ rooms' = [rooms EXCEPT ![bookings[b].room] = FALSE]
              /\ resp' = Response("approve_booking", "admin", NoValue, 200, [success |-> TRUE])
    /\ UNCHANGED <<req, complaints, creq, boot>>
    /\ UNCHANGED predVars

\* Mutant of reject_booking: rejecting a booking makes its room available
RejectFreesRoom(b) ==
    /\ \E is_admin \in BOOLEAN, commitFails \in BOOLEAN :
         IF ~is_admin
         THEN /\ resp' = Response("reject_booking", "student", NoValue, 403, Unauthorized)
              /\ UNCHANGED <<rooms, bookings>>
         ELSE IF bookings[b] = NoBooking \/ commitFails
         THEN /\ resp' = Response("reject_booking", "admin", NoValue, 500, ServerError)
              /\ UNCHANGED <<rooms, bookings>>
         ELSE /\ bookings' = [bookings EXCEPT ![b].status = "cancelled"]
              /\ rooms' = [rooms EXCEPT ![bookings[b].room] = TRUE]
              /\ resp' = Response("reject_booking", "admin", NoValue, 200, [success |-> TRUE])
    /\ UNCHANGED <<req, complaints, creq, boot>>
    /\ UNCHANGED predVars

\* POST /admin/reject-booking/<booking_id>
reject_booking(b) ==
    /\ \E is_admin \in BOOLEAN, commitFails \in BOOLEAN :
         IF ~is_admin
         THEN /\ resp' = Response("reject_booking", "student", NoValue, 403, Unauthorized)
              /\ UNCHANGED bookings
         ELSE IF bookings[b] = NoBooking \/ commitFails
         THEN /\ resp' = Response("reject_booking", "admin", NoValue, 500, ServerError)
              /\ UNCHANGED bookings
         ELSE /\ bookings' = [bookings EXCEPT ![b].status = "cancelled"]
              /\ resp' = Response("reject_booking", "admin", NoValue, 200, [success |-> TRUE])
    /\ UNCHANGED <<rooms, req, complaints, creq, boot>>
    /\ UNCHANGED predVars

\* The values of the Complaint.status column
ComplaintStatuses == {"new", "in_progress", "resolved", "closed"}

\* request.json.get('status') of the requests: the four values, another
\* word, and no 'status' key at all
RequestedStatuses == ComplaintStatuses \cup {"done", "None"}

\* Mutant of ComplaintAfterUpdate: resolved_at is stamped for 'resolved' only
ComplaintAfterUpdateResolvedOnly(row, new_status, admin_notes) ==
    [row EXCEPT !.status = new_status,
                !.admin_notes = admin_notes,
                !.resolved_at = IF new_status = "resolved" THEN "utcnow" ELSE @]

\* The row after the assignments of update_complaint_status
ComplaintAfterUpdate(row, new_status, admin_notes) ==
    [row EXCEPT !.status = new_status,
                !.admin_notes = admin_notes,
                !.resolved_at = IF new_status \in {"resolved", "closed"}
                                THEN "utcnow" ELSE @]

\* POST /admin/update-complaint/<complaint_id>
update_complaint_status(c) ==
    /\ \E is_admin \in BOOLEAN, new_status \in RequestedStatuses,
          commitFails \in BOOLEAN :
         LET arg == [status |-> new_status, admin_notes |-> ""]
             op == "update_complaint_status"
         IN  IF ~is_admin
             THEN /\ resp' = Response(op, "student", arg, 403, [error |-> "Unauthorized"])
                  /\ UNCHANGED complaints
             ELSE IF complaints[c] = NoComplaint
             THEN /\ resp' = Response(op, "admin", arg, 404, [error |-> "Not Found"])
                  /\ UNCHANGED complaints
             ELSE IF new_status \notin ComplaintStatuses
             THEN /\ resp' = Response(op, "admin", arg, 400, [error |-> "Invalid status"])
                  /\ UNCHANGED complaints
             ELSE IF commitFails
             THEN /\ resp' = Response(op, "admin", arg, 500, ServerError)
                  /\ UNCHANGED complaints
             ELSE /\ complaints' = [complaints EXCEPT ![c] =
                                      ComplaintAfterUpdate(@, new_status, arg.admin_notes)]
                  /\ resp' = Response(op, "admin", arg, 200,
                                      [message |-> "Complaint status updated successfully"])
    /\ UNCHANGED <<creq, boot>>
    /\ UNCHANGED predVars
    /\ UNCHANGED bookVars

\* The rooms table holds at most this many rows
MaxRooms == NumRooms + 1

\* Mutant of NewRoom: the row is inserted as occupied
NewRoomOccupied(rm) ==
    [i \in 1..(Cardinality(DOMAIN rm) + 1) |-> IF i \in DOMAIN rm THEN rm[i] ELSE FALSE]

\* The rooms table after Room(...) is added and committed: the new row gets
\* the next id and the column default is_available = True
NewRoom(rm) ==
    [i \in 1..(Cardinality(DOMAIN rm) + 1) |-> IF i \in DOMAIN rm THEN rm[i] ELSE TRUE]

\* GET/POST /admin/rooms
admin_rooms ==
    /\ \E is_admin \in BOOLEAN, valid \in BOOLEAN, commitFails \in BOOLEAN :
         IF ~is_admin
         THEN /\ resp' = Response("admin_rooms", "student", NoValue, 302,
                                  [redirect |-> "student_dashboard"])
              /\ UNCHANGED rooms
         ELSE IF ~valid \/ commitFails
         THEN /\ resp' = Response("admin_rooms", "admin", NoValue, 200, [page |-> "admin/rooms.html"])
              /\ UNCHANGED rooms
         ELSE /\ Cardinality(DOMAIN rooms) < MaxRooms
              /\ rooms' = NewRoom(rooms)
              /\ resp' = Response("admin_rooms", "admin", NoValue, 302, [redirect |-> "admin_rooms"])
    /\ UNCHANGED <<bookings, req, complaints, creq, boot>>
    /\ UNCHANGED predVars

----------------------------------------------------------------------------
(* Specifications *)

NoCall ==
    [proc |-> 0, op |-> "none", arg |-> NoValue, value |-> NoValue, path |-> "none",
     observed |-> "none", failed |-> "none", raised |-> FALSE,
     pre_trained |-> FALSE, pre_model |-> "none"]

\* Fresh instances (__init__) in every process; the store as earlier runs
\* left it.
InitInstances ==
    /\ is_trained = [p \in Procs |-> FALSE]
    /\ model = [p \in Procs |-> "none"]
    /\ store \in {"absent", "fitted"}
    /\ ppc = [p \in Procs |-> Idle]
    /\ call = NoCall

InitTables ==
    /\ rooms = [i \in RoomIds |-> TRUE]
    /\ bookings = [r \in Reqs |-> NoBooking]
    /\ req = [r \in Reqs |-> NewRequest]
    /\ complaints = [r \in Reqs |-> NoComplaint]
    /\ creq = [r \in Reqs |-> NewComplaintRequest]
    /\ resp = NoResponse
    /\ boot = Serving

\* The predictor lifecycle for each of the three classes
InitPredictor ==
    /\ kind \in Kinds
    /\ textblob \in (IF kind = "sentiment" THEN BOOLEAN ELSE {TRUE})
    /\ InitInstances
    /\ InitTables

NextPredictor ==
    \E p \in Procs : Train(p) \/ DumpEnd(p) \/ Load(p) \/ Predict(p)

SpecPredictor == InitPredictor /\ [][NextPredictor]_vars

\* The SentimentAnalyzer alone, its fallback also called directly
InitSentiment == InitPredictor /\ kind = "sentiment"

NextSentiment ==
    \E p \in Procs :
        Train(p) \/ DumpEnd(p) \/ Load(p) \/ Predict(p) \/ AnalyzeWithTextblob(p)

SpecSentiment == InitSentiment /\ [][NextSentiment]_vars

\* The lifecycle started with no stored model: whatever a load reads was
\* written by a train_model of the run
InitRoundTrip == InitPredictor /\ store = "absent"

\* train_model and load_model calls of the processes
NextRoundTrip ==
    \E p \in Procs : Train(p) \/ DumpEnd(p) \/ Load(p)

SpecRoundTrip == InitRoundTrip /\ [][NextRoundTrip]_vars

\* The web process's OccupancyPredictor: trained, loaded and asked for trends
InitTrend ==
    /\ kind = "occupancy"
    /\ textblob = TRUE
    /\ InitInstances
    /\ InitTables

NextTrend ==
    \/ Train(WebProc)
    \/ DumpEnd(WebProc)
    \/ Load(WebProc)
    \/ get_occupancy_trend(WebProc)

SpecTrend == InitTrend /\ [][NextTrend]_vars

\* Concurrent book_room requests
InitBooking ==
    /\ kind = "occupancy"
    /\ textblob = TRUE
    /\ InitInstances
    /\ InitTables

NextBooking ==
    \E r \in Reqs : BookBegin(r) \/ BookPredict(r) \/ Commit(r)

SpecBooking == InitBooking /\ [][NextBooking]_vars

\* Concurrent student_complaints requests
InitComplaints == InitBooking

NextComplaints ==
    \E r \in Reqs : ComplaintBegin(r) \/ ComplaintSave(r)

SpecComplaints == InitComplaints /\ [][NextComplaints]_vars

\* The tables book_room can have committed: each booking pending or
\* confirmed, a room unavailable exactly when a confirmed booking holds it
BookedTables ==
    [Reqs -> {NoBooking} \cup [room : RoomIds, status : {"pending", "confirmed"}]]

\* Admin requests and the startup batch, on tables book_room has filled
InitAdmin ==
    /\ kind = "occupancy"
    /\ textblob = TRUE
    /\ InitInstances
    /\ bookings \in BookedTables
    /\ rooms = [i \in RoomIds |->
                  ~\E b \in Reqs : bookings[b].room = i /\ bookings[b].status = "confirmed"]
    /\ req = [r \in Reqs |-> NewRequest]
    /\ complaints = [r \in Reqs |-> NoComplaint]
    /\ creq = [r \in Reqs |-> NewComplaintRequest]
    /\ resp = NoResponse
    /\ boot = AtBatch

NextAdmin ==
    \/ auto_approve_bookings
    \/ StartupAutoApprove
    \/ \E b \in Reqs : approve_booking(b) \/ reject_booking(b)

SpecAdmin == InitAdmin /\ [][NextAdmin]_vars

\* The complaints table: the first row, if there is one, as it was inserted
ComplaintTables ==
    {[c \in Reqs |-> IF c = 1 THEN row ELSE NoComplaint] :
        row \in {NoComplaint, NewComplaint(Complaint2, "plumbing", "medium")}}

\* All the admin's state-changing requests, on tables the student requests
\* have filled
InitAdminRoutes ==
    /\ kind = "occupancy"
    /\ textblob = TRUE
    /\ InitInstances
    /\ bookings \in BookedTables
    /\ rooms = [i \in RoomIds |->
                  ~\E b \in Reqs : bookings[b].room = i /\ bookings[b].status = "confirmed"]
    /\ req = [r \in Reqs |-> NewRequest]
    /\ complaints \in ComplaintTables
    /\ creq = [r \in Reqs |-> NewComplaintRequest]
    /\ resp = NoResponse
    /\ boot = Serving

NextAdminRoutes ==
    \/ auto_approve_bookings
    \/ admin_rooms
    \/ \E b \in Reqs : approve_booking(b) \/ reject_booking(b)
    \/ \E c \in Reqs : update_complaint_status(c)

SpecAdminRoutes == InitAdminRoutes /\ [][NextAdminRoutes]_vars

\* A process starting on a database earlier runs have filled
InitStartup ==
    /\ kind = "occupancy"
    /\ textblob = TRUE
    /\ InitInstances
    /\ bookings \in BookedTables
    /\ rooms = [i \in RoomIds |->
                  ~\E b \in Reqs : bookings[b].room = i /\ bookings[b].status = "confirmed"]
    /\ req = [r \in Reqs |-> NewRequest]
    /\ complaints = [r \in Reqs |-> NoComplaint]
    /\ creq = [r \in Reqs |-> NewComplaintRequest]
    /\ resp = NoResponse
    /\ boot = Booting

NextStartup ==
    \/ StartupDbCheck
    \/ StartupCreateAll
    \/ StartupLoad
    \/ StartupAutoApprove
    \/ StartupExcept
    \/ StartupReturn

\* create_app is straight-line code in one thread: a statement that can run
\* does run, or raises
SpecStartup == InitStartup /\ [][NextStartup]_vars /\ WF_vars(NextStartup)

\* A database as the setup scripts leave it: the seeded rooms, if any, all
\* available, and no booking
InitHostel ==
    /\ kind = "occupancy"
    /\ textblob = TRUE
    /\ InitInstances
    /\ \E k \in 0..NumRooms : rooms = [i \in 1..k |-> TRUE]
    /\ bookings = [r \in Reqs |-> NoBooking]
    /\ req = [r \in Reqs |-> NewRequest]
    /\ complaints = [r \in Reqs |-> NoComplaint]
    /\ creq = [r \in Reqs |-> NewComplaintRequest]
    /\ resp = NoResponse
    /\ boot = Serving

\* Student bookings and the admin's booking and room requests, interleaved
NextHostel ==
    \/ \E r \in Reqs : BookBegin(r) \/ BookPredict(r) \/ Commit(r)
    \/ \E b \in Reqs : approve_booking(b) \/ reject_booking(b)
    \/ auto_approve_bookings
    \/ admin_rooms

SpecHostel == InitHostel /\ [][NextHostel]_vars

Init == InitPredictor \/ InitBooking
Next == NextPredictor \/ NextBooking
Spec == Init /\ [][Next]_vars

----------------------------------------------------------------------------
(* Properties of book_room (SpecBooking) *)

\* C1: a book_room request that commits ends with its booking 'confirmed'
\* and its room unavailable exactly when the approval rule answered
\* approved with a confidence strictly above 0.7; in every other case the
\* booking is committed 'pending' and the commit leaves the rooms table as
\* it was.
C1_AutoConfirmRule ==
    [][\A r \in Reqs :
         (req[r].pc = "decided" /\ req'[r].outcome = "committed") =>
            LET confirm == req[r].pred.approved /\ req[r].pred.confidence > 70
            IN  /\ bookings'[r].status = IF confirm THEN "confirmed" ELSE "pending"
                /\ bookings'[r].room = req[r].room
                /\ rooms' = IF confirm
                            THEN [rooms EXCEPT ![req[r].room] = FALSE]
                            ELSE rooms]_vars

\* An approved booking with confidence exactly 0.70 was committed 'pending'
\* and its room is still available.
C1_Witness ==
    \E r \in Reqs :
        /\ req[r].outcome = "committed"
        /\ req[r].pred.approved
        /\ req[r].pred.confidence = 70
        /\ bookings[r].status = "pending"
        /\ rooms[req[r].room]

\* The request read its room as available and the rule approved it with a
\* confidence above 0.7
ApprovedOnAvailableRoom(r) ==
    /\ req[r].outcome = "committed"
    /\ req[r].room_avail
    /\ req[r].pred.approved
    /\ req[r].pred.confidence > 70

\* C2: two book_room requests for the same room, both started while the
\* room was available and both approved with confidence > 0.7, never both
\* end 'confirmed'.
C2_NoDoubleConfirm ==
    \A r1, r2 \in Reqs :
        (/\ r1 # r2
         /\ ApprovedOnAvailableRoom(r1)
         /\ ApprovedOnAvailableRoom(r2)
         /\ req[r1].room = req[r2].room)
        => ~(bookings[r1].status = "confirmed" /\ bookings[r2].status = "confirmed")

\* C3: a book_room request that read its room as already unavailable never
\* ends with its booking 'confirmed'.
C3_ConfirmOnlyAvailableRoom ==
    \A r \in Reqs :
        (req[r].outcome = "committed" /\ ~req[r].room_avail)
        => bookings[r].status # "confirmed"

----------------------------------------------------------------------------
(* Properties of the predictor lifecycle (SpecPredictor) *)

\* C4: classify_complaint and analyze_sentiment return without raising in
\* every predictor state, with a category among electrical, plumbing,
\* cleaning, furniture, other and a label among positive, negative, neutral.
C4_PredictTotalAndEnumerated ==
    (call.op = "predict" /\ kind \in {"complaint", "sentiment"}) =>
        /\ ~call.raised
        /\ kind = "complaint" => call.value.category \in ComplaintCategories
        /\ kind = "sentiment" => call.value.label \in SentimentLabels

\* classify_complaint ran on a trained instance whose model is unfitted, so
\* inference raised, and still answered.
C4_Witness ==
    /\ call.op = "predict"
    /\ kind = "complaint"
    /\ call.pre_trained
    /\ call.pre_model = "unfitted"
    /\ call.value.category = "other"

\* What predict returns for input x on a fresh instance with an empty store
UntrainedNoStoreValue(x) ==
    PredictResult(kind, textblob, PredictLoad(FALSE, "none", "absent", FALSE), x,
                  CHOOSE out \in ModelOutputs(kind) : TRUE).value

\* C5: when a trained predictor's inference raises, predict returns exactly
\* what the same call returns on an untrained instance with no stored
\* model, and nothing is raised to the caller.
C5_InferenceFailureIsFallback ==
    (call.op = "predict" /\ call.pre_trained /\ InferenceRaises(call.pre_model)) =>
        /\ ~call.raised
        /\ call.value = UntrainedNoStoreValue(call.arg)

\* predict_occupancy ran on a trained instance whose inference raised
C5_Witness ==
    /\ call.op = "predict"
    /\ kind = "occupancy"
    /\ call.pre_trained
    /\ InferenceRaises(call.pre_model)
    /\ call.path = "fallback"

\* C6: train_model never raises, and when one of its steps fails on an
\* untrained predictor, the predictor is untrained when train_model returns.
C6_FailedTrainingStaysUntrained ==
    call.op = "train" =>
        /\ ~call.raised
        /\ (call.failed # "none" /\ ~call.pre_trained) => ~is_trained[call.proc]

\* C7: is_trained becomes true only in a train_model call or in a load_model
\* (explicit or inside predict) that read a model from the store, and once
\* true it stays true in every step, failing calls included.
C7_TrainedNeverReverts ==
    [][\A p \in Procs :
         /\ is_trained[p] => is_trained'[p]
         /\ (~is_trained[p] /\ is_trained'[p]) =>
               /\ call'.proc = p
               /\ \/ call'.op \in {"train", "train_dumping"}
                  \/ call'.op \in {"load", "predict"} /\ call'.observed = "fitted"]_vars

\* A trained instance whose last call, a load_model, failed
C7_Witness ==
    /\ call.op = "load"
    /\ ~call.value.ret
    /\ call.pre_trained
    /\ is_trained[call.proc]

\* C8: predict on a trained instance does not touch the store; on an
\* untrained instance it looks the store up, and when the lookup reads a
\* model the instance is trained and the call is answered by the model.
C8_StoreLookupOnlyWhenUntrained ==
    call.op = "predict" =>
        /\ call.pre_trained => call.observed = "none"
        /\ ~call.pre_trained => call.observed # "none"
        /\ (~call.pre_trained /\ call.observed = "fitted") =>
              /\ is_trained[call.proc]
              /\ model[call.proc] = "fitted"
              /\ call.path = "model"

\* An untrained instance found a stored model during predict and answered
\* with it
C8_Witness ==
    /\ call.op = "predict"
    /\ ~call.pre_trained
    /\ call.observed = "fitted"
    /\ call.path = "model"

\* C9: load_model returns true exactly when the store holds a model and the
\* read succeeded, and the instance is then trained with that model;
\* otherwise it returns false, raises nothing and leaves is_trained and the
\* in-memory model as they were.
C9_LoadContract ==
    call.op = "load" =>
        /\ ~call.raised
        /\ call.value.ret <=> (store = "fitted" /\ call.observed = "fitted")
        /\ call.value.ret =>
              is_trained[call.proc] /\ model[call.proc] = store
        /\ ~call.value.ret =>
              /\ is_trained[call.proc] = call.pre_trained
              /\ model[call.proc] = call.pre_model

\* load_model failed on an incomplete file and left a trained instance as
\* it was
C9_Witness ==
    /\ call.op = "load"
    /\ call.observed = "partial"
    /\ ~call.value.ret
    /\ call.pre_trained
    /\ model[call.proc] = "fitted"

\* C10: a load_model that runs while another process is inside train_model's
\* write of the same file never reads a partially written model.
C10_NoPartialRead ==
    (/\ call.op \in {"load", "predict"}
     /\ \E q \in Procs \ {call.proc} : ppc[q].at = "dumping")
    => call.observed # "partial"

----------------------------------------------------------------------------
(* Properties of the save / load round trip (SpecRoundTrip) *)

\* predict on an instance (tr, mdl) for input x with the file content st, when the fitted pipeline
\* answers out on x
PredictOf(tr, mdl, st, x, out) ==
    PredictResult(kind, textblob, PredictLoad(tr, mdl, st, FALSE), x, out).value

----------------------------------------------------------------------------
(* Properties of the complaint priority (SpecPredictor) *)

\* Which tier lists of each path the lower-cased "title description" of a
\* sample complaint contains a keyword of, computed once
TierHits ==
    [x \in ComplaintInputs |->
        LET text == Lower(Combined(x.title, x.description))
        IN  [model_high |-> \E i \in DOMAIN ModelHighWords :
                               Contains(text, ModelHighWords[i]),
             model_medium |-> \E i \in DOMAIN ModelMediumWords :
                                 Contains(text, ModelMediumWords[i]),
             fallback_high |-> \E i \in DOMAIN FallbackHighWords :
                                  Contains(text, FallbackHighWords[i]),
             fallback_medium |-> \E i \in DOMAIN FallbackMediumWords :
                                    Contains(text, FallbackMediumWords[i])]]

ComplaintCall == call.op = "predict" /\ kind = "complaint"

\* C12: in the model path and in the fallback path alike, classify_complaint
\* answers priority 'high' exactly when the lower-cased text contains a
\* high-tier keyword of that path, 'medium' exactly when it contains none of
\* those and a medium-tier keyword, and 'low' exactly when it contains
\* neither; a text with keywords of both tiers gets 'high'.
C12_PriorityTiers ==
    ComplaintCall =>
        LET h == TierHits[call.arg]
            high == IF call.path = "model" THEN h.model_high ELSE h.fallback_high
            medium == IF call.path = "model" THEN h.model_medium
                      ELSE h.fallback_medium
        IN  /\ call.path \in {"model", "fallback"}
            /\ (call.value.priority = "high") <=> high
            /\ (call.value.priority = "medium") <=> (~high /\ medium)
            /\ (call.value.priority = "low") <=> (~high /\ ~medium)

\* The model path classified a text holding keywords of both tiers
\* ("URGENT fan broken") and answered 'high'.
C12_Witness ==
    /\ ComplaintCall
    /\ call.path = "model"
    /\ TierHits[call.arg].model_high
    /\ TierHits[call.arg].model_medium
    /\ call.value.priority = "high"

\* C13: the priority classify_complaint answers for a text is the same in
\* the model path and in the fallback path: whichever path ran, it is both
\* the model path's and the fallback path's priority of that text.
C13_PriorityPathIndependent ==
    ComplaintCall =>
        /\ call.value.priority = ModelPriorityOf[call.arg]
        /\ call.value.priority = FallbackOf[call.arg].priority

\* C14: classify_complaint answers priority 'high' for "wifi not working",
\* in its model path and in its fallback path.
C14_WifiNotWorkingIsHigh ==
    (ComplaintCall /\ call.arg = Complaint1) => call.value.priority = "high"

----------------------------------------------------------------------------
(* Properties of predict_occupancy (SpecPredictor) *)

OccupancyCall == call.op = "predict" /\ kind = "occupancy"

\* C15: for every date and every predictor state, the value
\* predict_occupancy returns lies between 0 and 100.
C15_OccupancyInRange ==
    OccupancyCall =>
        /\ call.value.occupancy_rate >= 0
        /\ call.value.occupancy_rate <= 100000

\* The regressor answered below 0 and predict_occupancy returned 0.
C15_Witness ==
    /\ OccupancyCall
    /\ call.path = "model"
    /\ call.value.occupancy_rate = 0

\* C16: an untrained OccupancyPredictor that finds no stored model returns
\* 75.0 from predict_occupancy for every date and stays untrained.
C16_UntrainedDefault ==
    (OccupancyCall /\ ~call.pre_trained /\ call.observed = "absent") =>
        /\ call.value = [occupancy_rate |-> 75000]
        /\ ~call.raised
        /\ ~is_trained[call.proc]

\* An untrained predictor was asked with no stored model and answered 75.0.
C16_Witness ==
    /\ OccupancyCall
    /\ ~call.pre_trained
    /\ call.observed = "absent"
    /\ call.value.occupancy_rate = 75000
    /\ ~is_trained[call.proc]

----------------------------------------------------------------------------
(* Properties of get_occupancy_trend (SpecTrend) *)

\* The day after a calendar date
NextDay(d) ==
    IF d.day < DaysInMonth(d.year, d.month) THEN [d EXCEPT !.day = d.day + 1]
    ELSE IF d.month < 12 THEN [d EXCEPT !.month = d.month + 1, !.day = 1]
    ELSE [year |-> d.year + 1, month |-> 1, day |-> 1]

RECURSIVE DaysAfter(_, _)
DaysAfter(d, k) == IF k = 0 THEN d ELSE NextDay(DaysAfter(d, k - 1))

\* C17: get_occupancy_trend(n) returns exactly n entries; entry i (from 0)
\* carries the date i days after today, written year-month-day, so the
\* first is today and each later one is the day after the one before; its
\* occupancy_rate is the value predict_occupancy returned for that date,
\* rounded to two decimals.
C17_TrendEntries ==
    call.op = "trend" =>
        LET t == call.value.trend
            pr == call.value.predicted
            n == call.arg.days
        IN  /\ Len(t) = n
            /\ Len(pr) = n
            /\ \A i \in 1 .. n :
                 /\ t[i].date = Strftime(DaysAfter(call.arg.today, i - 1))
                 /\ pr[i].date = DaysAfter(call.arg.today, i - 1)
                 /\ t[i].occupancy_rate % 10 = 0
                 /\ t[i].occupancy_rate - pr[i].value <= 5
                 /\ pr[i].value - t[i].occupancy_rate <= 5
            /\ \A i \in 1 .. n - 1 :
                 pr[i + 1].date = NextDay(pr[i].date)

\* A two-day trend asked on 2024-02-28 carries 2024-02-28 and 2024-02-29,
\* the second with a model prediction of 42.126 rounded to 42.13.
C17_Witness ==
    /\ call.op = "trend"
    /\ call.arg.days = 2
    /\ call.arg.today = [year |-> 2024, month |-> 2, day |-> 28]
    /\ call.value.trend[1].date = <<"2", "0", "2", "4", "-", "0", "2", "-", "2", "8">>
    /\ call.value.trend[2].date = <<"2", "0", "2", "4", "-", "0", "2", "-", "2", "9">>
    /\ call.value.predicted[2].value = 42126
    /\ call.value.trend[2].occupancy_rate = 42130

----------------------------------------------------------------------------
(* Properties of student_complaints (SpecComplaints) *)

\* C18: when a student with a profile has submitted a valid complaint form
\* and the database did not fail, a Complaint row with status 'new' is
\* committed whose category and priority are the values the mappings derive
\* from the title and the description, the category being one the schema
\* allows.
C18_ComplaintPersisted ==
    \A r \in Reqs :
        (/\ creq[r].pc = "done"
         /\ creq[r].x \in ComplaintInputs
         /\ creq[r].outcome # "db_error")
        => /\ complaints[r].status = "new"
           /\ complaints[r].category = ManualOf[creq[r].x].category
           /\ complaints[r].priority = ManualOf[creq[r].x].priority
           /\ complaints[r].category \in CategoryEnum

----------------------------------------------------------------------------
(* Properties of the admin booking management (SpecAdmin) *)

BatchCallers == {"auto_approve_bookings", "create_app"}

\* C19: a run of auto_approve_pending_bookings changes only bookings that
\* were 'pending': each booking it changes goes from 'pending' to
\* 'confirmed' with nothing else of the row changed and its room
\* unavailable afterwards, bookings in any other status and rooms of no
\* promoted booking are as before, and the count returned is the number of
\* bookings promoted by that run.
C19_BatchPromotesOnlyPending ==
    [][(resp'.op \in BatchCallers /\ resp'.status # 403) =>
         LET promoted == {b \in Reqs : bookings'[b] # bookings[b]}
         IN  /\ \A b \in promoted :
                  /\ bookings[b].status = "pending"
                  /\ bookings'[b] = [bookings[b] EXCEPT !.status = "confirmed"]
                  /\ ~rooms'[bookings[b].room]
             /\ \A b \in Reqs :
                  bookings[b].status # "pending" => bookings'[b] = bookings[b]
             /\ \A i \in RoomIds :
                  rooms'[i] # rooms[i] => \E b \in promoted : bookings[b].room = i
             /\ resp'.status = 200 =>
                  resp'.body.approved_count = Cardinality(promoted)
             /\ resp'.status # 200 => promoted = {}]_vars

\* The batch answered that it promoted one booking: that one is confirmed
\* with its room unavailable, and another booking is still pending.
C19_Witness ==
    /\ resp.op = "auto_approve_bookings"
    /\ resp.status = 200
    /\ resp.body.approved_count = 1
    /\ \E b, c \in Reqs :
         /\ bookings[b].status = "confirmed"
         /\ ~rooms[bookings[b].room]
         /\ bookings[c].status = "pending"

----------------------------------------------------------------------------
(* Properties of empty input (SpecPredictor) *)

\* A text that is empty or white space only
BlankText(s) == \A i \in DOMAIN s : s[i] = " "

\* The text a predict call was given is empty or white space only
BlankCall ==
    /\ call.op = "predict"
    /\ IF kind = "complaint"
       THEN BlankText(Combined(call.arg.title, call.arg.description))
       ELSE kind = "sentiment" /\ call.arg.blank

\* C20: on an empty or white-space-only text, in every predictor state,
\* predict does not raise, classify_complaint answers category 'other' with
\* priority 'low' and analyze_sentiment answers label 'neutral'.
C20_EmptyTextResidual ==
    BlankCall =>
        /\ ~call.raised
        /\ kind = "complaint" =>
              (call.value.category = "other" /\ call.value.priority = "low")
        /\ kind = "sentiment" => call.value.label = "neutral"

----------------------------------------------------------------------------
(* Properties of the fallback category (SpecPredictor) *)

\* The keyword groups of the fallback scan in the order the claim gives
GroupOrder == <<"electrical", "plumbing", "cleaning", "furniture">>

GroupWords(g) ==
    IF g = "electrical" THEN ElectricalWords
    ELSE IF g = "plumbing" THEN PlumbingWords
    ELSE IF g = "cleaning" THEN CleaningWords
    ELSE FurnitureWords

\* The positions in GroupOrder of the groups a sample complaint's
\* lower-cased "title description" contains a keyword of, computed once
GroupHits ==
    [x \in ComplaintInputs |->
        LET text == Lower(Combined(x.title, x.description))
        IN  {i \in DOMAIN GroupOrder :
               \E k \in DOMAIN GroupWords(GroupOrder[i]) :
                  Contains(text, GroupWords(GroupOrder[i])[k])}]

\* C21: in the fallback path classify_complaint answers the earliest group,
\* in the order electrical, plumbing, cleaning, furniture, that has a
\* keyword occurring in the lower-cased title and description, and 'other'
\* when no group has one.
C21_FallbackCategoryOrder ==
    (ComplaintCall /\ call.path = "fallback") =>
        LET hits == GroupHits[call.arg]
        IN  /\ hits = {} => call.value.category = "other"
            /\ hits # {} =>
                 \E i \in hits :
                    /\ \A j \in hits : i <= j
                    /\ call.value.category = GroupOrder[i]

\* The fallback path classified a text with a plumbing and a cleaning
\* keyword ("Water leak", "Bathroom is dirty") as plumbing.
C21_Witness ==
    /\ ComplaintCall
    /\ call.path = "fallback"
    /\ {2, 3} \subseteq GroupHits[call.arg]
    /\ call.value.category = "plumbing"

----------------------------------------------------------------------------
(* Properties of the bookings and rooms tables (SpecHostel, SpecAdmin,
   SpecBooking) *)

\* C22: every booking whose committed status is 'confirmed' refers to an
\* existing room whose is_available is false, whatever book_room,
\* approve_booking, reject_booking, auto-approval and room-creation
\* requests ran.
C22_ConfirmedRoomUnavailable ==
    \A b \in Reqs :
        bookings[b].status = "confirmed" =>
            /\ bookings[b].room \in DOMAIN rooms
            /\ ~rooms[bookings[b].room]

\* book_room confirmed one booking by itself and the admin approved another
\* one, after a room was added through admin_rooms.
C22_Witness ==
    /\ \E b, c \in Reqs :
          /\ b # c
          /\ bookings[b].status = "confirmed" /\ req[b].status = "confirmed"
          /\ bookings[c].status = "confirmed" /\ req[c].status = "pending"
    /\ Cardinality(DOMAIN rooms) = MaxRooms

\* C23: no step makes an unavailable room available again or removes a room,
\* and a step that takes a booking out of 'confirmed' makes it 'cancelled'
\* and leaves its room unavailable.
C23_RoomNeverFreed ==
    [][ /\ \A i \in DOMAIN rooms :
             i \in DOMAIN rooms' /\ (~rooms[i] => ~rooms'[i])
        /\ \A b \in Reqs :
             (bookings[b].status = "confirmed" /\ bookings'[b] # bookings[b]) =>
                 /\ bookings'[b] = [bookings[b] EXCEPT !.status = "cancelled"]
                 /\ ~rooms'[bookings[b].room] ]_vars

\* A booking that book_room had confirmed was rejected: it is cancelled and
\* its room is still unavailable.
C23_Witness ==
    \E b \in Reqs :
        /\ req[b].status = "confirmed"
        /\ bookings[b].status = "cancelled"
        /\ ~rooms[bookings[b].room]
        /\ resp = Response("reject_booking", "admin", NoValue, 200, [success |-> TRUE])

\* C24: no step turns a 'cancelled' or 'completed' booking into 'confirmed'
\* or a 'confirmed' booking into 'cancelled': the admin endpoints change
\* the status of pending bookings only.
C24_AdminStartsFromPending ==
    [][ \A b \in Reqs :
          /\ bookings[b].status \in {"cancelled", "completed"} =>
                bookings'[b].status # "confirmed"
          /\ bookings[b].status = "confirmed" =>
                bookings'[b].status # "cancelled" ]_vars

\* C25: a step of a book_room request other than its successful commit
\* changes neither table, and a request that ended without committing has
\* no booking row: a stay of no days, or an exception after the flush,
\* leaves the database as it was.
C25_FailureLeavesTables ==
    [][ \A r \in Reqs :
          (req'[r] # req[r] /\ req'[r].outcome # "committed") =>
              /\ rooms' = rooms
              /\ bookings' = bookings
              /\ bookings'[r] = NoBooking ]_vars

\* One request was refused for its dates and another one was rolled back
\* after the prediction had run; neither has a row and the room is still
\* available.
C25_Witness ==
    /\ \E r, q \in Reqs :
          /\ req[r].outcome = "invalid_dates" /\ bookings[r] = NoBooking
          /\ req[q].outcome = "rolled_back" /\ bookings[q] = NoBooking
    /\ call.op = "predict"
    /\ \A i \in DOMAIN rooms : rooms[i]

----------------------------------------------------------------------------
(* Properties of the admin endpoints (SpecAdminRoutes) *)

\* C26: a request a non-admin user sends to update_complaint_status,
\* auto_approve_bookings, approve_booking, reject_booking or admin_rooms is
\* answered 403, or by a redirect, and changes no booking, room or complaint
\* row; no prediction runs for it.
C26_NonAdminRefused ==
    [][resp'.user = "student" =>
          /\ resp'.status \in {403, 302}
          /\ bookings' = bookings
          /\ rooms' = rooms
          /\ complaints' = complaints
          /\ call' = call]_vars

\* A non-admin asked to approve a pending booking, with a complaint on file
\* and the room still available: the answer is 403.
C26_Witness ==
    /\ resp.user = "student"
    /\ resp.op = "approve_booking"
    /\ resp.status = 403
    /\ \E b \in Reqs : bookings[b].status = "pending" /\ rooms[bookings[b].room]
    /\ \E c \in Reqs : complaints[c] # NoComplaint

\* The complaint rows hold one of the four statuses, and a resolved or
\* closed one has its resolved_at
ComplaintRowsOk(table) ==
    \A c \in Reqs :
        table[c] # NoComplaint =>
            /\ table[c].status \in {"new", "in_progress", "resolved", "closed"}
            /\ table[c].status \in {"resolved", "closed"} =>
                  table[c].resolved_at # "null"

\* C28: before and after every update_complaint_status request each
\* complaint's status is one of new, in_progress, resolved, closed and a
\* resolved or closed complaint has resolved_at set; a request naming
\* another status is answered with an error and changes no complaint.
C28_ComplaintStatus ==
    [][ /\ ComplaintRowsOk(complaints)
        /\ ComplaintRowsOk(complaints')
        /\ ( /\ resp'.op = "update_complaint_status"
             /\ resp'.arg.status \notin {"new", "in_progress", "resolved", "closed"} ) =>
               /\ resp'.status >= 400
               /\ complaints' = complaints ]_vars

\* A complaint was closed, which stamped resolved_at, and the next request
\* named the status 'done': it was answered 400 and the row is as it was.
C28_Witness ==
    /\ resp.op = "update_complaint_status"
    /\ resp.arg.status = "done"
    /\ resp.status = 400
    /\ \E c \in Reqs :
          /\ complaints[c] # NoComplaint
          /\ complaints[c].status = "closed"
          /\ complaints[c].resolved_at = "utcnow"

----------------------------------------------------------------------------
(* Properties of the trained flag (SpecRoundTrip) *)

\* C27: whenever an instance's is_trained is true its in-memory model is a
\* fitted model, whatever train_model and load_model calls ran and whichever
\* of their steps failed.
C27_TrainedImpliesFitted ==
    \A p \in Procs : is_trained[p] => model[p] = "fitted"

----------------------------------------------------------------------------
(* Properties of the sentiment fallback (SpecSentiment) *)

\* A call that ended in _analyze_with_textblob
TextblobCall ==
    /\ kind = "sentiment"
    /\ \/ call.op = "textblob"
       \/ call.op = "predict" /\ call.path = "fallback"

\* C29: in the fallback path with TextBlob available and not raising, the
\* label is positive exactly when the polarity is above 0.1, negative
\* exactly when it is below -0.1 and neutral otherwise, the score is the
\* polarity and the confidence 0.8; with TextBlob unavailable or raising
\* the result is exactly neutral, 0.0, 0.5.
C29_TextblobThresholds ==
    TextblobCall =>
        LET x == call.arg
            v == call.value
        IN  IF textblob /\ x # NoneText
            THEN /\ v.label = "positive" <=> x.polarity > 10
                 /\ v.label = "negative" <=> x.polarity < -10
                 /\ v.label = "neutral" <=> (x.polarity >= -10 /\ x.polarity <= 10)
                 /\ v.score = x.polarity
                 /\ v.confidence = 80
            ELSE v = [label |-> "neutral", score |-> 0, confidence |-> 50]

\* analyze_sentiment fell back, with TextBlob, on a text of polarity
\* exactly 0.1: the label is neutral.
C29_Witness ==
    /\ TextblobCall
    /\ call.op = "predict"
    /\ textblob
    /\ call.arg.polarity = 10
    /\ call.value = [label |-> "neutral", score |-> 10, confidence |-> 80]

----------------------------------------------------------------------------
(* Properties of create_app's startup (SpecStartup) *)

\* The statements that ran: those completed and the one that raised
StartupRan == {boot.done[i] : i \in DOMAIN boot.done} \cup ({boot.raised} \ {"none"})

\* The statements completed so far are the first ones of the order database
\* check, table creation, the four load_model calls, auto-approval; the
\* batch ran only after the four loads had completed; once a statement has
\* raised no later one runs and the exception goes no further than the
\* except clause.
StartupOrdered ==
    LET order == <<"db_check", "create_all", "load_sentiment", "load_occupancy",
                   "load_complaint", "load_approver", "auto_approve">>
        n == Len(boot.done)
    IN  /\ n <= Len(order)
        /\ boot.done = SubSeq(order, 1, n)
        /\ "auto_approve" \in StartupRan =>
              \A i \in 3..6 : \E j \in DOMAIN boot.done : boot.done[j] = order[i]
        /\ boot.raised # "none" =>
              /\ n < Len(order)
              /\ boot.raised = order[n + 1]
              /\ boot.pc \in {"except", "routes", "returned"}
        /\ boot.raised = "none" =>
              boot.pc \in {order[i] : i \in DOMAIN order} \cup {"routes", "returned"}

\* C30: the startup statements run in the order database check, table
\* creation, four load_model calls, auto-approval, so the batch never runs
\* before the loads; a statement that raises ends the block, the exception
\* is swallowed, and create_app returns the app in every case.
C30_StartupOrder == [](StartupOrdered) /\ <>(boot.pc = "returned")

\* db.create_all() raised: no model was loaded, the batch did not run, and
\* create_app has returned.
C30_Witness ==
    /\ boot.pc = "returned"
    /\ boot.raised = "create_all"
    /\ boot.done = <<"db_check">>

====
